---- MODULE Spec2Model ----
(***************************************************************************)
(* The OAuth identity-provider bridge of src/src/index.ts: the Lambda      *)
(* entry point `handler` (the request router) and its three handlers,      *)
(* handleAuthorize, handleTokenExchange and handleRegisterUser, over the   *)
(* three DynamoDB tables and the process-wide `shared.state` of the vendor *)
(* client.  One action handles one request from dispatch to response; the  *)
(* outcomes of the collaborators (record store, vendor client, wall clock) *)
(* are chosen nondeterministically inside it.                              *)
(***************************************************************************)
EXTENDS Integers, Sequences, FiniteSets, TLC

VARIABLES
  now,         \* what Date.now() reads (epoch ms)
  authTable,   \* shared.Table.AUTH : code -> item
  tokenTable,  \* shared.Table.TOKEN: token -> item
  userTable,   \* shared.Table.USER : username -> item
  state,       \* shared.state, the vendor client's process-wide session state
  nextUuid,    \* how many uuidv4() values were minted so far
  last,        \* the invocation in progress: event, what the handler did, response
  issuedAt,    \* history: code -> what Date.now() read when its record was written
  inflight     \* the Register User invocations that overlap in the process
               \* (SpecOverlap): request -> where it stands and its locals

vars == <<now, authTable, tokenTable, userTable, state, nextUuid, last, issuedAt,
          inflight>>

----------------------------------------------------------------------------
(* Values *)

Absent == "absent"                    \* undefined / null
Falsy(x) == x = Absent \/ x = ""      \* !x for a string | undefined | null

None == {}                            \* an object that is undefined
Some(x) == {x}
Val(o) == CHOOSE x \in o : TRUE

Field(obj, f) == IF f \in DOMAIN obj THEN obj[f] ELSE Absent   \* obj.f
WithAttr(item, f, v) == IF v = Absent THEN item ELSE item @@ (f :> v)

TenMinutes == 600000
OneHour == 3600000
ExpiresIn == 3600

(* Bounds *)
MaxSlack == 1      \* ms the clock may advance besides the ten-minute jump
MaxUuid == 2       \* uuidv4() values available
MaxReplay == 3     \* uuidv4() values available to the authorization-code flow alone

(* The clock may advance by d: by single ms up to MaxSlack, and once by ten
   minutes. *)
MayAdvance(t, d) ==
  \/ d = 0
  \/ d = TenMinutes /\ t < TenMinutes
  \/ d < TenMinutes /\ (t % TenMinutes) + d <= MaxSlack
UuidNames == <<"u1", "u2", "u3", "u4", "u5", "u6", "u7", "u8">>
Drift == {0, 1}     \* ms the clock may advance between two steps of a handler

(* uuidv4(): the k-th value minted by the running request (k = 0, 1) *)
uuidv4(k) == UuidNames[nextUuid + k + 1]

----------------------------------------------------------------------------
(* The record store (AWS.DynamoDB.DocumentClient) *)

Get(table, key) == IF key \in DOMAIN table THEN Some(table[key]) ELSE None
Put(table, key, item) ==
  [k \in DOMAIN table \cup {key} |-> IF k = key THEN item ELSE table[k]]

KeyOf == [AUTH |-> "code", TOKEN |-> "token", USER |-> "username"]

RECURSIVE ApplyPuts(_, _, _)
ApplyPuts(table, name, puts) ==
  IF puts = <<>> THEN table
  ELSE LET p == Head(puts)
           t == IF p.TableName = name
                THEN Put(table, p.Item[KeyOf[name]], p.Item) ELSE table
       IN ApplyPuts(t, name, Tail(puts))

PutsTo(puts, name) == SelectSeq(puts, LAMBDA p : p.TableName = name)

----------------------------------------------------------------------------
(* Responses *)

JsonError(status, msg) == [statusCode |-> status, body |-> [error |-> msg]]
JsonErrorWithHeaders(status, msg) ==
  [statusCode |-> status, headers |-> [ContentType |-> "application/json"],
   body |-> [error |-> msg]]

(* What a handler did: the response it returned or the fact that it threw,
   the store writes that completed, the store reads it issued, the uuids it
   minted, the time it took, shared.state as it left it. *)
Done(resp, puts, reads, minted, dt, st, trace) ==
  [threw |-> FALSE, resp |-> resp, puts |-> puts, reads |-> reads,
   minted |-> minted, dt |-> dt, state |-> st, trace |-> trace]
Throw(error, puts, reads, minted, dt, st, trace) ==
  [threw |-> TRUE, error |-> error, puts |-> puts, reads |-> reads,
   minted |-> minted, dt |-> dt, state |-> st, trace |-> trace]

----------------------------------------------------------------------------
(* handleAuthorize *)

MissingAuthorizeParamsNoRedirect(params) ==
  params = None \/ Falsy(Field(Val(params), "client_id"))
(* !params || !params.client_id || !params.redirect_uri *)
MissingAuthorizeParams(params) ==
  \/ params = None
  \/ Falsy(Field(Val(params), "client_id"))
  \/ Falsy(Field(Val(params), "redirect_uri"))

AuthExpiresAtOneHour(t) == t + OneHour
AuthExpiresAt(t) == t + TenMinutes

(* `${redirect_uri}?code=${authCode}&state=${state || ""}` *)
RedirectLocation(redirect_uri, authCode, st) ==
  <<redirect_uri, "?code=", authCode, "&state=", IF Falsy(st) THEN "" ELSE st>>

(* ch.putOk: the put resolves (else it rejects and the handler throws) *)
handleAuthorize(params, ch) ==
  IF MissingAuthorizeParams(params)
  THEN Done(JsonError(400, "Missing required parameters"),
            <<>>, 0, 0, 0, state, [step |-> "params"])
  ELSE
    LET client_id == Field(Val(params), "client_id")
        redirect_uri == Field(Val(params), "redirect_uri")
        st == Field(Val(params), "state")
        authCode == uuidv4(0)
        item == [code |-> authCode, clientId |-> client_id,
                 redirectUri |-> redirect_uri, expiresAt |-> AuthExpiresAt(now)]
        trace == [step |-> "put", authCode |-> authCode, t66 |-> now]
    IN IF ~ch.putOk
       THEN Throw("put AUTH failed", <<>>, 0, 1, 0, state, trace)
       ELSE Done([statusCode |-> 302,
                  headers |-> [Location |-> RedirectLocation(redirect_uri, authCode, st)],
                  body |-> ""],
                 <<[TableName |-> "AUTH", Item |-> item]>>,
                 0, 1, 0, state, trace)

----------------------------------------------------------------------------
(* handleTokenExchange *)

(* The raw body is the base64 text of a URL-encoded form; it is kept here as
   the list of <<name, value>> fields it encodes. *)
Base64Decode(body) == body.form

(* URLSearchParams.get(name): the first value given for name, or null *)
ParamsGet(params, name) ==
  LET at == {i \in 1..Len(params) : params[i][1] = name}
  IN IF at = {} THEN Absent
     ELSE params[CHOOSE i \in at : \A j \in at : i <= j][2]

(* !body: undefined, null or the empty string *)
NoBody(body) == body = None \/ "empty" \in DOMAIN Val(body)

MissingTokenParamsOrForeignClient(code, client_id, redirect_uri, grant_type) ==
  \/ Falsy(code) \/ Falsy(client_id) \/ Falsy(redirect_uri) \/ Falsy(grant_type)
  \/ client_id # "skill"
(* !code || !client_id || !redirect_uri || !grant_type *)
MissingTokenParams(code, client_id, redirect_uri, grant_type) ==
  Falsy(code) \/ Falsy(client_id) \/ Falsy(redirect_uri) \/ Falsy(grant_type)

InvalidGrantTypeUnchecked(grant_type) == FALSE
InvalidGrantType(grant_type) == grant_type # "authorization_code"

CodeRejectedAtExpiry(result, t) ==
  result = None \/ Val(result).expiresAt <= t
CodeRejectedIfAbsent(result, t) == result = None
CodeRejectedUnlessClientBound(result, t) ==
  \/ result = None
  \/ Field(Val(result), "clientId") = Absent
  \/ Val(result).expiresAt < t
(* !result.Item || result.Item.expiresAt < Date.now() *)
CodeRejected(result, t) == result = None \/ Val(result).expiresAt < t

TokenExpiresAt(t) == t + OneHour

AccessTokenItemUnlinked(accessToken, client_id, veluxUserId, t157, t158) ==
  [token |-> accessToken, clientId |-> client_id,
   createdAt |-> t157, expiresAt |-> TokenExpiresAt(t158)]
(* Item: { token, clientId, veluxUserId, createdAt, expiresAt } *)
AccessTokenItem(accessToken, client_id, veluxUserId, t157, t158) ==
  WithAttr([token |-> accessToken, clientId |-> client_id,
            createdAt |-> t157, expiresAt |-> TokenExpiresAt(t158)],
           "veluxUserId", veluxUserId)

(* ch.getOk, ch.putOk: the store call resolves; ch.d1: ms that pass while the
   get is awaited; ch.d2: ms that pass between the two Date.now() readings of
   the AccessToken item *)
handleTokenExchange(body, ch) ==
  IF NoBody(body)
  THEN Done(JsonErrorWithHeaders(400, "Missing request body"),
            <<>>, 0, 0, 0, state, [step |-> "body"])
  ELSE
    LET params == Base64Decode(Val(body))
        code == ParamsGet(params, "code")
        client_id == ParamsGet(params, "client_id")
        redirect_uri == ParamsGet(params, "redirect_uri")
        grant_type == ParamsGet(params, "grant_type")
        form == [code |-> code, client_id |-> client_id,
                 redirect_uri |-> redirect_uri, grant_type |-> grant_type]
    IN
    IF MissingTokenParams(code, client_id, redirect_uri, grant_type)
    THEN Done(JsonErrorWithHeaders(400, "Missing required parameters"),
              <<>>, 0, 0, 0, state, [step |-> "params", form |-> form])
    ELSE IF InvalidGrantType(grant_type)
    THEN Done(JsonErrorWithHeaders(400, "Invalid grant type"),
              <<>>, 0, 0, 0, state, [step |-> "grant", form |-> form])
    ELSE IF ~ch.getOk
    THEN Throw("get AUTH failed", <<>>, 1, 0, ch.d1, state,
               [step |-> "get", form |-> form, t135 |-> now + ch.d1])
    ELSE
      LET result == Get(authTable, code)
          t135 == now + ch.d1
      IN
      IF CodeRejected(result, t135)
      THEN Done(JsonErrorWithHeaders(400, "Invalid or expired authorization code"),
                <<>>, 1, 0, ch.d1, state,
                [step |-> "check", form |-> form, result |-> result, t135 |-> t135])
      ELSE
        LET veluxUserId == Field(Val(result), "veluxUserId")
            accessToken == uuidv4(0)
            t157 == t135
            t158 == t157 + ch.d2
            item == AccessTokenItem(accessToken, client_id, veluxUserId, t157, t158)
            trace == [step |-> "put", form |-> form, result |-> result,
                      t135 |-> t135, accessToken |-> accessToken]
        IN IF ~ch.putOk
           THEN Throw("put TOKEN failed", <<>>, 1, 1, ch.d1 + ch.d2, state, trace)
           ELSE Done([statusCode |-> 200,
                      headers |-> [ContentType |-> "application/json"],
                      body |-> [access_token |-> accessToken,
                                token_type |-> "bearer",
                                expires_in |-> ExpiresIn]],
                     <<[TableName |-> "TOKEN", Item |-> item]>>,
                     1, 1, ch.d1 + ch.d2, state, trace)

----------------------------------------------------------------------------
(* handleRegisterUser *)

(* The raw body is kept as the JSON value its text denotes (json), or as its
   text when that is no JSON. *)

(* JSON.parse(body): throws on text that is no JSON, else the value *)
JSONparseThrows(body) == "json" \notin DOMAIN body
JSONparse(body) == body.json

(* const { velux_user_id, velux_password } = parsedBody: throws on null *)
DestructureThrows(parsedBody) == parsedBody = None

MissingCredentials(velux_user_id, velux_password) ==
  Falsy(velux_user_id) \/ Falsy(velux_password)

NoTokenDataUnchecked(st) == FALSE
(* !shared.state.tokenData *)
NoTokenData(st) == st.tokenData = None

FindBridgeOrFirst(modules) ==
  LET at == {i \in 1..Len(modules) : modules[i].type = "NXG"}
  IN IF at # {} THEN modules[CHOOSE i \in at : \A j \in at : i <= j].id
     ELSE IF Len(modules) = 0 THEN Absent ELSE modules[1].id
FindBridgeLast(modules) ==
  LET at == {i \in 1..Len(modules) : modules[i].type = "NXG"}
  IN IF at = {} THEN Absent
     ELSE modules[CHOOSE i \in at : \A j \in at : i >= j].id
(* homes[0].modules.find((module) => module.type === "NXG")?.id *)
FindBridge(modules) ==
  LET at == {i \in 1..Len(modules) : modules[i].type = "NXG"}
  IN IF at = {} THEN Absent
     ELSE modules[CHOOSE i \in at : \A j \in at : i <= j].id

RegisterCodeExpiresAtOneHour(t) == t + OneHour
RegisterCodeExpiresAt(t) == t + TenMinutes

RegisterAuthItem(authCode, velux_user_id, t) ==
  [code |-> authCode, veluxUserId |-> velux_user_id,
   expiresAt |-> RegisterCodeExpiresAt(t)]

UserItem(velux_user_id, velux_password, homeId, bridge, token, t) ==
  WithAttr([username |-> velux_user_id, password |-> velux_password,
            home_id |-> homeId,
            access_token |-> token.AccessToken,
            refresh_token |-> token.RefreshToken,
            createdAt |-> t],
           "bridge", bridge)

(* shared.makeTokenRequest("password"): the vendor client logs in with the
   credentials staged in shared.state.userData.  A login that succeeds leaves
   its token data in shared.state.tokenData and returns them; one that yields
   none returns nothing, and either clears shared.state.tokenData or leaves
   there what an earlier request of the process put (the client's code is not
   part of this repository: both are allowed). *)
AfterLogin(st, login) ==
  [st EXCEPT !.tokenData = IF login.kind = "issued" THEN Some(login.token)
                           ELSE IF login.left = "kept" THEN st.tokenData
                           ELSE None]
(* const token = await shared.makeTokenRequest("password") *)
Returned(login) == IF login.kind = "issued" THEN Some(login.token) ELSE None

(* ch.warmUp, ch.login, ch.home: what the vendor client does ("throw", or its
   answer); ch.putUserOk, ch.putAuthOk: the store call resolves; ch.d1: ms
   that pass while the vendor calls are awaited; ch.d2: ms that pass while the
   UserRecord put is awaited *)
handleRegisterUser(body, ch) ==
  IF NoBody(body)
  THEN Done(JsonError(400, "Missing request body"),
            <<>>, 0, 0, 0, state, [step |-> "body"])
  ELSE IF JSONparseThrows(Val(body)) \/ DestructureThrows(JSONparse(Val(body)))
  THEN Throw("SyntaxError or TypeError", <<>>, 0, 0, 0, state, [step |-> "parse"])
  ELSE
    LET parsedBody == Val(JSONparse(Val(body)))
        velux_user_id == Field(parsedBody, "velux_user_id")
        velux_password == Field(parsedBody, "velux_password")
    IN
    IF MissingCredentials(velux_user_id, velux_password)
    THEN Done(JsonError(400, "Missing required parameters"),
              <<>>, 0, 0, 0, state, [step |-> "params"])
    ELSE IF ch.warmUp = "throw"
    THEN Throw("warmUp failed", <<>>, 0, 0, ch.d1, state, [step |-> "warmUp"])
    ELSE
      LET staged == [state EXCEPT
                       !.skillType = "SmartHome",
                       !.userData = Some([username |-> velux_user_id,
                                          password |-> velux_password,
                                          bridge |-> Absent, home_id |-> Absent,
                                          access_token |-> Absent,
                                          refresh_token |-> Absent])]
      IN
      IF ch.login.kind = "throw"
      THEN Throw("makeTokenRequest failed", <<>>, 0, 0, ch.d1, staged,
                 [step |-> "login", login |-> ch.login])
      ELSE
        LET after == AfterLogin(staged, ch.login)
            token == Returned(ch.login)
        IN
        IF NoTokenData(after)
        THEN Done(JsonError(401, "Error validating credentials against Velux backend!"),
                  <<>>, 0, 0, ch.d1, after, [step |-> "401", login |-> ch.login])
        ELSE IF ch.home.kind = "throw"
        THEN Throw("getHomeInfoWithRetry failed", <<>>, 0, 0, ch.d1, after,
                   [step |-> "homeInfo", login |-> ch.login])
        ELSE
          LET homeData == ch.home.data
              homes == homeData.body.homes
          IN
          IF Len(homes) = 0 \/ token = None
          THEN Throw("TypeError", <<>>, 0, 0, ch.d1, after,
                     [step |-> "extract", login |-> ch.login, homeData |-> homeData])
          ELSE
            LET homeId == homes[1].id
                bridge == FindBridge(homes[1].modules)
                t241 == now + ch.d1
                dbitem == UserItem(velux_user_id, velux_password, homeId, bridge,
                                   Val(token), t241)
                authCode == uuidv4(0)
                t259 == t241 + ch.d2
                authItem == RegisterAuthItem(authCode, velux_user_id, t259)
                trace == [login |-> ch.login, homeData |-> homeData,
                          t241 |-> t241, t259 |-> t259, authCode |-> authCode]
            IN
            IF ~ch.putUserOk
            THEN Throw("put USER failed", <<>>, 0, 0, ch.d1, after,
                       trace @@ [step |-> "putUser"])
            ELSE IF ~ch.putAuthOk
            THEN Throw("put AUTH failed", <<[TableName |-> "USER", Item |-> dbitem]>>,
                       0, 1, ch.d1 + ch.d2, after, trace @@ [step |-> "putAuth"])
            ELSE Done([statusCode |-> 200,
                       body |-> [message |-> [code |-> authCode],
                                 homeInfo |-> homeData]],
                      <<[TableName |-> "USER", Item |-> dbitem],
                        [TableName |-> "AUTH", Item |-> authItem]>>,
                      0, 1, ch.d1 + ch.d2, after, trace @@ [step |-> "done"])

----------------------------------------------------------------------------
(* handler: the request router *)

RouteOtherPostsToRegister(httpMethod, rawPath) ==
  IF httpMethod = "GET" /\ rawPath = "/authorize" THEN "handleAuthorize"
  ELSE IF httpMethod = "POST" /\ rawPath = "/token" THEN "handleTokenExchange"
  ELSE IF httpMethod = "POST" THEN "handleRegisterUser"
  ELSE "none"
RouteByPath(httpMethod, rawPath) ==
  IF rawPath = "/authorize" THEN "handleAuthorize"
  ELSE IF rawPath = "/token" THEN "handleTokenExchange"
  ELSE IF rawPath = "/register_user" THEN "handleRegisterUser"
  ELSE "none"
Route(httpMethod, rawPath) ==
  IF httpMethod = "GET" /\ rawPath = "/authorize" THEN "handleAuthorize"
  ELSE IF httpMethod = "POST" /\ rawPath = "/token" THEN "handleTokenExchange"
  ELSE IF httpMethod = "POST" /\ rawPath = "/register_user" THEN "handleRegisterUser"
  ELSE "none"

Unsupported ==
  Done(JsonError(404, "Unsupported operation"), <<>>, 0, 0, 0, state, [step |-> "route"])

CatchNothing(out) ==
  IF out.threw
  THEN [uncaught |-> TRUE, resp |-> [statusCode |-> 0, body |-> [error |-> out.error]]]
  ELSE [uncaught |-> FALSE, resp |-> out.resp]
(* try { return await handleX(...) } catch (error) { ... 500 } *)
Catch(out) ==
  IF out.threw
  THEN [uncaught |-> FALSE, resp |-> JsonError(500, "Internal server error")]
  ELSE [uncaught |-> FALSE, resp |-> out.resp]

(* The effect of one invocation of the entry point; at most cap uuids are
   minted in a run. *)
HandleUpTo(cap, event, route, out) ==
  /\ nextUuid + out.minted <= cap
  /\ MayAdvance(now, out.dt)
  /\ now' = now + out.dt
  /\ authTable' = ApplyPuts(authTable, "AUTH", out.puts)
  /\ tokenTable' = ApplyPuts(tokenTable, "TOKEN", out.puts)
  /\ userTable' = ApplyPuts(userTable, "USER", out.puts)
  /\ state' = out.state
  /\ nextUuid' = nextUuid + out.minted
  /\ issuedAt' = [c \in DOMAIN authTable' |->
                    IF c \in DOMAIN authTable THEN issuedAt[c] ELSE now]
  /\ last' = [event |-> event, route |-> route, out |-> out,
              resp |-> Catch(out).resp, uncaught |-> Catch(out).uncaught]
  /\ UNCHANGED inflight
Handle(event, route, out) == HandleUpTo(MaxUuid, event, route, out)

----------------------------------------------------------------------------
(* Inputs *)

Methods == {"GET", "POST"}
Paths == {"/authorize", "/token", "/register_user", "/other"}
ClientIds == {"skill"}
TokenClientIds == {"other"}
RedirectUris == {"https://cb"}
States == {"xyz"}

QueryParams ==
  {None, Some([state |-> "xyz"]), Some([client_id |-> "skill"]),
   Some([client_id |-> "", redirect_uri |-> "https://cb"]),
   Some([client_id |-> "skill", redirect_uri |-> "", state |-> "xyz"])}
  \cup
  {Some([client_id |-> c, redirect_uri |-> r]) : c \in ClientIds, r \in RedirectUris}
  \cup
  {Some([client_id |-> c, redirect_uri |-> r, state |-> s]) :
     c \in ClientIds, r \in RedirectUris, s \in States \cup {""}}

(* The fields of a form, in the order given, absent ones left out *)
FormOf(c, ci, ru, g) ==
  SelectSeq(<<<<"code", c>>, <<"client_id", ci>>, <<"redirect_uri", ru>>,
              <<"grant_type", g>>>>,
            LAMBDA f : f[2] # Absent)

Codes == {UuidNames[i] : i \in 1..MaxUuid} \cup {"bogus"}
GrantTypes == {"authorization_code", "password"}

TokenForms ==
  {FormOf(c, ci, ru, g) :
     c \in Codes, ci \in TokenClientIds, ru \in RedirectUris, g \in GrantTypes}
  \cup {FormOf(Absent, "skill", "https://cb", "authorization_code"),
        FormOf("u1", Absent, "https://cb", "authorization_code"),
        FormOf("u1", "skill", Absent, "authorization_code"),
        FormOf("u1", "skill", "https://cb", Absent),
        FormOf("u1", "skill", Absent, "password"),
        <<<<"foo", "bar">>>>,
        <<<<"code", "">>, <<"client_id", "skill">>,
          <<"redirect_uri", "https://cb">>, <<"grant_type", "password">>>>,
        <<<<"code", "bogus">>, <<"code", "u1">>, <<"client_id", "skill">>,
          <<"redirect_uri", "https://cb">>, <<"grant_type", "authorization_code">>>>}

EmptyBody == Some([empty |-> TRUE])
TokenBodies == {None, EmptyBody} \cup {Some([form |-> f]) : f \in TokenForms}

(* The collaborator outcomes a Token Exchange can meet; a choice the handler
   did not get to use is left at its default, so that no run is listed twice *)
TokenChoices == [getOk : BOOLEAN, putOk : BOOLEAN, d1 : Drift, d2 : Drift]
TokenDefault == [getOk |-> TRUE, putOk |-> TRUE, d1 |-> 0, d2 |-> 0]
TokenRejectsInput(body) ==
  handleTokenExchange(body, TokenDefault).trace.step \in {"body", "params", "grant"}
TokenChoiceUsed(ch, step) ==
  /\ step \in {"body", "params", "grant"} => ch.getOk /\ ch.d1 = 0
  /\ step = "get" => ~ch.getOk
  /\ step # "put" => ch.putOk /\ ch.d2 = 0

Users == {"alice"}
Passwords == {"secret"}

RegisterBodies ==
  {None, EmptyBody, Some([text |-> "{velux"]), Some([json |-> None]),
   Some([json |-> Some([velux_user_id |-> "alice"])]),
   Some([json |-> Some([velux_user_id |-> "", velux_password |-> "secret"])]),
   Some([json |-> Some([velux_password |-> "secret"])])}
  \cup
  {Some([json |-> Some([velux_user_id |-> u, velux_password |-> p])]) :
     u \in Users, p \in Passwords}

VendorTokens ==
  {[AccessToken |-> "AT1", RefreshToken |-> "RT1"],
   [AccessToken |-> "AT2", RefreshToken |-> "RT2"]}

HomeDatas ==
  {[body |-> [homes |-> <<>>]],
   [body |-> [homes |-> <<[id |-> "H2",
                           modules |-> <<[id |-> "M0", type |-> "NXO"],
                                         [id |-> "B2", type |-> "NXG"],
                                         [id |-> "B3", type |-> "NXG"]>>],
                          [id |-> "H3",
                           modules |-> <<[id |-> "B4", type |-> "NXG"]>>]>>]],
   [body |-> [homes |-> <<[id |-> "H4", modules |-> <<[id |-> "M1", type |-> "NXO"]>>]>>]]}

LoginOutcomes ==
  {[kind |-> "throw"], [kind |-> "none", left |-> "cleared"],
   [kind |-> "none", left |-> "kept"]}
  \cup {[kind |-> "issued", token |-> t] : t \in VendorTokens}

HomeOutcomes == {[kind |-> "throw"]} \cup {[kind |-> "data", data |-> h] : h \in HomeDatas}

RegisterDefault ==
  [warmUp |-> "ok", login |-> [kind |-> "none", left |-> "cleared"], home |-> [kind |-> "throw"],
   putUserOk |-> TRUE, putAuthOk |-> TRUE, d1 |-> 0, d2 |-> 0]
(* The collaborator outcomes a Register User can meet; a choice the handler
   does not get to use is left at its default, so that no run is listed twice *)
RegisterChoices ==
  {ch \in [warmUp : {"ok", "throw"}, login : LoginOutcomes, home : HomeOutcomes,
           putUserOk : BOOLEAN, putAuthOk : BOOLEAN, d1 : {0}, d2 : {0}] :
     /\ ch.warmUp = "throw" => ch.login = RegisterDefault.login
     /\ ch.login.kind = "throw" => ch.home.kind = "throw"
     /\ (ch.login.kind = "none" /\ NoTokenData(AfterLogin(state, ch.login)))
           => ch.home.kind = "throw"
     /\ (ch.login.kind # "issued" \/ ch.home.kind = "throw"
           \/ ch.home.data.body.homes = <<>>) => ch.putUserOk
     /\ (ch.login.kind # "issued" \/ ch.home.kind = "throw"
           \/ ch.home.data.body.homes = <<>> \/ ~ch.putUserOk)
           => ch.putAuthOk /\ ch.d2 = 0}
RegisterRejectsInput(body) ==
  handleRegisterUser(body, RegisterDefault).trace.step \in {"body", "parse", "params"}

----------------------------------------------------------------------------
(* Actions *)

Init ==
  /\ now = 0
  /\ authTable = << >>
  /\ tokenTable = << >>
  /\ userTable = << >>
  /\ state = [skillType |-> Absent, userData |-> None, tokenData |-> None]
  /\ nextUuid = 0
  /\ last = [route |-> "idle"]
  /\ issuedAt = << >>
  /\ inflight = << >>

(* Time passes between two requests. *)
Tick ==
  /\ last.route = "idle"
  /\ \E d \in {TenMinutes} : MayAdvance(now, d) /\ now' = now + d
  /\ UNCHANGED <<authTable, tokenTable, userTable, state, nextUuid, last, issuedAt,
               inflight>>

(* The process takes one invocation at a time. *)
Idle == last.route = "idle"

AuthorizeRequestUpTo(cap) ==
  /\ Idle
  /\ \E m \in Methods, p \in Paths :
     /\ Route(m, p) = "handleAuthorize"
     /\ \E params \in QueryParams, putOk \in BOOLEAN :
        \E out \in {handleAuthorize(params, [putOk |-> putOk])} :
          /\ out.trace.step = "params" => putOk
          /\ HandleUpTo(cap, [httpMethod |-> m, rawPath |-> p,
                          queryStringParameters |-> params, body |-> None],
                        "handleAuthorize", out)
AuthorizeRequest == AuthorizeRequestUpTo(MaxUuid)

TokenRequestUpTo(cap) ==
  /\ Idle
  /\ \E m \in Methods, p \in Paths :
     /\ Route(m, p) = "handleTokenExchange"
     /\ \E body \in TokenBodies :
        \E ch \in (IF TokenRejectsInput(body) THEN {TokenDefault} ELSE TokenChoices) :
        \E out \in {handleTokenExchange(body, ch)} :
          /\ TokenChoiceUsed(ch, out.trace.step)
          /\ HandleUpTo(cap, [httpMethod |-> m, rawPath |-> p,
                          queryStringParameters |-> None, body |-> body],
                        "handleTokenExchange", out)
TokenRequest == TokenRequestUpTo(MaxUuid)

RegisterRequest ==
  /\ Idle
  /\ \E m \in Methods, p \in Paths :
     /\ Route(m, p) = "handleRegisterUser"
     /\ \E body \in RegisterBodies :
        \E ch \in (IF RegisterRejectsInput(body) THEN {RegisterDefault} ELSE RegisterChoices) :
        \E out \in {handleRegisterUser(body, ch)} :
          Handle([httpMethod |-> m, rawPath |-> p,
                  queryStringParameters |-> None, body |-> body],
                 "handleRegisterUser", out)

UnsupportedRequest ==
  /\ Idle
  /\ \E m \in Methods, p \in Paths :
     /\ Route(m, p) = "none"
     /\ Handle([httpMethod |-> m, rawPath |-> p,
                queryStringParameters |-> None, body |-> None],
               "none", Unsupported)

(* The response goes back to the caller and the process is free again. *)
Return ==
  /\ ~Idle
  /\ last' = [route |-> "idle"]
  /\ UNCHANGED <<now, authTable, tokenTable, userTable, state, nextUuid, issuedAt,
               inflight>>

Next ==
  \/ Tick
  \/ AuthorizeRequest
  \/ TokenRequest
  \/ RegisterRequest
  \/ UnsupportedRequest
  \/ Return

Spec == Init /\ [][Next]_vars

(* The authorization-code flow alone (GET /authorize and POST /token), run
   long enough for one code to be exchanged more than once. *)
NextReplay ==
  \/ Tick
  \/ AuthorizeRequestUpTo(MaxReplay)
  \/ TokenRequestUpTo(MaxReplay)
  \/ Return

SpecReplay == Init /\ [][NextReplay]_vars

----------------------------------------------------------------------------
(* The store utilities of the second source file: storeAuthorizationCode,
   validateAuthorizationCode and storeAccessToken.  No handler calls them; a
   caller passes them the document client.  Under SpecUtils authTable and
   tokenTable stand for their tables AUTH_TABLE and TOKEN_TABLE, and last
   holds the call that returned last. *)

(* Item of storeAuthorizationCode *)
StoredAuthorizationCode(code, clientId, redirectUri, t) ==
  [code |-> code, clientId |-> clientId, redirectUri |-> redirectUri,
   expiresAt |-> t + TenMinutes]

ValidIgnoringRedirect(result, clientId, redirectUri, t) ==
  /\ result # None
  /\ Field(Val(result), "clientId") = clientId
  /\ Val(result).expiresAt > t
(* result.Item && result.Item.clientId === clientId &&
   result.Item.redirectUri === redirectUri && result.Item.expiresAt > Date.now() *)
Valid(result, clientId, redirectUri, t) ==
  /\ result # None
  /\ Field(Val(result), "clientId") = clientId
  /\ Field(Val(result), "redirectUri") = redirectUri
  /\ Val(result).expiresAt > t

(* Item of storeAccessToken: the clock is read twice *)
StoredAccessToken(token, clientId, t1, t2) ==
  [token |-> token, clientId |-> clientId, createdAt |-> t1,
   expiresAt |-> t2 + OneHour]

UtilCodes == {"c1", "c2"}
UtilStoredCodes == {"c1"}
UtilClientIds == {"skill", "other"}
UtilRedirectUris == {"https://cb", "https://elsewhere"}
UtilTokens == {"t1"}
(* The times a utility is called at: the first milliseconds, the last
   millisecond of the ten minutes, and the first ones after them *)
UtilTimes ==
  (0..MaxSlack) \cup {TenMinutes - 1} \cup (TenMinutes..(TenMinutes + MaxSlack))

(* await dynamoDB.put(params).promise(): the put resolves, or rejects and the
   utility throws *)
storeAuthorizationCode ==
  \E code \in UtilStoredCodes, clientId \in UtilClientIds,
     redirectUri \in UtilRedirectUris, putOk \in BOOLEAN :
    LET item == StoredAuthorizationCode(code, clientId, redirectUri, now)
    IN /\ authTable' = IF putOk THEN Put(authTable, code, item) ELSE authTable
       /\ issuedAt' = IF putOk THEN [c \in DOMAIN authTable' |->
                                       IF c = code THEN now ELSE issuedAt[c]]
                      ELSE issuedAt
       /\ last' = [route |-> "storeAuthorizationCode", threw |-> ~putOk,
                   args |-> <<code, clientId, redirectUri>>]
       /\ UNCHANGED <<now, tokenTable, userTable, state, nextUuid, inflight>>

(* the get resolves after d ms, or rejects and the utility throws *)
validateAuthorizationCode ==
  \E code \in UtilCodes, clientId \in UtilClientIds,
     redirectUri \in UtilRedirectUris, getOk \in BOOLEAN, d \in Drift :
    /\ now + d \in UtilTimes
    /\ getOk \/ d = 0
    /\ now' = now + d
    /\ last' = IF getOk
               THEN [route |-> "validateAuthorizationCode", threw |-> FALSE,
                     args |-> <<code, clientId, redirectUri>>, t |-> now + d,
                     result |-> Valid(Get(authTable, code), clientId, redirectUri, now + d)]
               ELSE [route |-> "validateAuthorizationCode", threw |-> TRUE,
                     args |-> <<code, clientId, redirectUri>>]
    /\ UNCHANGED <<authTable, tokenTable, userTable, state, nextUuid, issuedAt,
                 inflight>>

storeAccessToken ==
  \E token \in UtilTokens, clientId \in {"skill"}, putOk \in BOOLEAN, d \in Drift :
    /\ now + d \in UtilTimes
    /\ now' = now + d
    /\ tokenTable' = IF putOk
                     THEN Put(tokenTable, token,
                              StoredAccessToken(token, clientId, now, now + d))
                     ELSE tokenTable
    /\ last' = [route |-> "storeAccessToken", threw |-> ~putOk,
                args |-> <<token, clientId>>]
    /\ UNCHANGED <<authTable, userTable, state, nextUuid, issuedAt, inflight>>

(* Time passes between two calls. *)
UtilTick ==
  /\ \E t \in UtilTimes : t > now /\ now' = t
  /\ UNCHANGED <<authTable, tokenTable, userTable, state, nextUuid, last, issuedAt,
               inflight>>

NextUtils ==
  \/ storeAuthorizationCode
  \/ validateAuthorizationCode
  \/ storeAccessToken
  \/ UtilTick

SpecUtils == Init /\ [][NextUtils]_vars

----------------------------------------------------------------------------
(* Register User invocations that overlap in one process.  Each runs
   handleRegisterUser from one await to the next; the store and the vendor
   answer every call.  The vendor client takes no credentials and no token as
   arguments: makeTokenRequest("password") logs in with what it finds in
   shared.state.userData, getHomeInfoWithRetry() asks with what it finds in
   shared.state.tokenData, each read made at some moment between the call
   and its answer (at once, or later). *)

Requests == {1, 2}

HomeOf(id, bridge) ==
  [body |-> [homes |-> <<[id |-> id, modules |-> <<[id |-> bridge, type |-> "NXG"]>>]>>]]

(* The vendor's accounts: password, the tokens a login is issued, the home *)
VendorAccounts ==
  [alice |-> [password |-> "secret",
              token |-> [AccessToken |-> "AT1", RefreshToken |-> "RT1"],
              home |-> HomeOf("H1", "B1")],
   bob |-> [password |-> "hunter2",
            token |-> [AccessToken |-> "AT2", RefreshToken |-> "RT2"],
            home |-> HomeOf("H2", "B2")]]

OverlapCredentials ==
  {[velux_user_id |-> "alice", velux_password |-> "secret"],
   [velux_user_id |-> "bob", velux_password |-> "hunter2"],
   [velux_user_id |-> "bob", velux_password |-> "wrong"]}

Accepted(username, password) ==
  username \in DOMAIN VendorAccounts /\ VendorAccounts[username].password = password

(* the vendor's answer to a password-grant login *)
VendorLogin(userData) ==
  IF Accepted(userData.username, userData.password)
  THEN [kind |-> "issued", token |-> VendorAccounts[userData.username].token]
  ELSE [kind |-> "none", left |-> "cleared"]

(* the vendor's answer to a home-data request made with a token *)
VendorHome(tokenData) ==
  VendorAccounts[CHOOSE u \in DOMAIN VendorAccounts :
                   VendorAccounts[u].token = tokenData].home

At(r, pc) == r \in DOMAIN inflight /\ inflight[r].pc = pc
Becomes(r, fields) == [inflight EXCEPT ![r] = fields @@ @]
Fails(r) ==
  Becomes(r, [pc |-> "done",
              resp |-> Catch([threw |-> TRUE, error |-> "TypeError"]).resp])

(* the request arrives with credentials and awaits shared.warmUp() *)
OvStart(r) ==
  /\ r \notin DOMAIN inflight
  /\ \E c \in OverlapCredentials :
       /\ ~MissingCredentials(c.velux_user_id, c.velux_password)
       /\ inflight' = [q \in DOMAIN inflight \cup {r} |->
                         IF q = r
                         THEN [pc |-> "warmUp", velux_user_id |-> c.velux_user_id,
                               velux_password |-> c.velux_password]
                         ELSE inflight[q]]
  /\ UNCHANGED <<now, authTable, tokenTable, userTable, state, nextUuid, last, issuedAt>>

(* warmUp is back: the credentials are staged in shared.state and
   makeTokenRequest("password") is called *)
OvStage(r) ==
  /\ At(r, "warmUp")
  /\ state' = [state EXCEPT
                 !.skillType = "SmartHome",
                 !.userData = Some([username |-> inflight[r].velux_user_id,
                                    password |-> inflight[r].velux_password,
                                    bridge |-> Absent, home_id |-> Absent,
                                    access_token |-> Absent,
                                    refresh_token |-> Absent])]
  /\ inflight' = Becomes(r, [pc |-> "login"])
  /\ UNCHANGED <<now, authTable, tokenTable, userTable, nextUuid, last, issuedAt>>

(* the vendor client takes the credentials of the login from shared.state *)
OvLoginReads(r) ==
  /\ At(r, "login")
  /\ "sent" \notin DOMAIN inflight[r]
  /\ inflight' = Becomes(r, [sent |-> Val(state.userData)])
  /\ UNCHANGED <<now, authTable, tokenTable, userTable, state, nextUuid, last, issuedAt>>

(* the login is answered; the handler tests shared.state.tokenData and
   answers 401 or calls getHomeInfoWithRetry() *)
OvLoginResolves(r) ==
  /\ At(r, "login")
  /\ "sent" \in DOMAIN inflight[r]
  /\ LET login == VendorLogin(inflight[r].sent)
         after == AfterLogin(state, login)
     IN /\ state' = after
        /\ inflight' =
             IF NoTokenData(after)
             THEN Becomes(r, [pc |-> "done", token |-> Returned(login),
                              resp |-> JsonError(401,
                                "Error validating credentials against Velux backend!")])
             ELSE Becomes(r, [pc |-> "homeInfo", token |-> Returned(login)])
  /\ UNCHANGED <<now, authTable, tokenTable, userTable, nextUuid, last, issuedAt>>

(* the vendor client takes the token of the home-data request from
   shared.state *)
OvHomeReads(r) ==
  /\ At(r, "homeInfo")
  /\ "used" \notin DOMAIN inflight[r]
  /\ inflight' = Becomes(r, [used |-> state.tokenData])
  /\ UNCHANGED <<now, authTable, tokenTable, userTable, state, nextUuid, last, issuedAt>>

(* the home data are back; the handler builds the UserRecord from its own
   credentials, the token its login returned and the home data, and puts it *)
OvHomeResolves(r) ==
  /\ At(r, "homeInfo")
  /\ "used" \in DOMAIN inflight[r]
  /\ inflight' =
       IF inflight[r].used = None \/ inflight[r].token = None
       THEN Fails(r)
       ELSE LET homeData == VendorHome(Val(inflight[r].used))
                home == homeData.body.homes[1]
            IN Becomes(r, [pc |-> "putUser", homeData |-> homeData,
                           dbitem |-> UserItem(inflight[r].velux_user_id,
                                               inflight[r].velux_password,
                                               home.id, FindBridge(home.modules),
                                               Val(inflight[r].token), now)])
  /\ UNCHANGED <<now, authTable, tokenTable, userTable, state, nextUuid, last, issuedAt>>

(* the UserRecord is stored; the handler mints the code and puts it *)
OvPutUserResolves(r) ==
  /\ At(r, "putUser")
  /\ nextUuid + 1 <= MaxUuid
  /\ userTable' = Put(userTable, inflight[r].dbitem.username, inflight[r].dbitem)
  /\ nextUuid' = nextUuid + 1
  /\ inflight' = Becomes(r, [pc |-> "putAuth", authCode |-> uuidv4(0)])
  /\ UNCHANGED <<now, authTable, tokenTable, state, last, issuedAt>>

(* the code is stored; the handler answers 200 *)
OvPutAuthResolves(r) ==
  /\ At(r, "putAuth")
  /\ LET authCode == inflight[r].authCode
     IN /\ authTable' = Put(authTable, authCode,
                            RegisterAuthItem(authCode, inflight[r].velux_user_id, now))
        /\ issuedAt' = [c \in DOMAIN authTable' |->
                          IF c \in DOMAIN authTable THEN issuedAt[c] ELSE now]
        /\ inflight' = Becomes(r, [pc |-> "done",
                                   resp |-> [statusCode |-> 200,
                                             body |-> [message |-> [code |-> authCode],
                                                       homeInfo |-> inflight[r].homeData]]])
  /\ UNCHANGED <<now, tokenTable, userTable, state, nextUuid, last>>

NextOverlap ==
  \E r \in Requests :
    \/ OvStart(r)
    \/ OvStage(r)
    \/ OvLoginReads(r)
    \/ OvLoginResolves(r)
    \/ OvHomeReads(r)
    \/ OvHomeResolves(r)
    \/ OvPutUserResolves(r)
    \/ OvPutAuthResolves(r)

SpecOverlap == Init /\ [][NextOverlap]_vars

----------------------------------------------------------------------------
(* Reading the invocation in progress.  While it is in progress (~Idle) the
   tables, the clock and shared.state are as the handler left them. *)

Answering(route) == last.route = route
Status == last.resp.statusCode
ErrorIs(msg) == Status \notin {200, 302} /\ last.resp.body = [error |-> msg]
Step == last.out.trace.step
Writes(name) == Len(PutsTo(last.out.puts, name))
NoWrites == last.out.puts = <<>>

(* A Token Exchange whose four fields are present, with the grant type
   "authorization_code": the fields it carried *)
TokenForm == last.out.trace.form
ExchangeRequested ==
  /\ Answering("handleTokenExchange")
  /\ Step \in {"get", "check", "put"}
  /\ ~Falsy(TokenForm.code) /\ ~Falsy(TokenForm.client_id)
  /\ ~Falsy(TokenForm.redirect_uri)
  /\ TokenForm.grant_type = "authorization_code"

----------------------------------------------------------------------------
C1_StaleCode ==
  /\ ExchangeRequested
  /\ \/ TokenForm.code \notin DOMAIN authTable
     \/ authTable[TokenForm.code].expiresAt < last.out.trace.t135
(* C1: a Token Exchange with all four fields and grant_type
   "authorization_code", whose code has no record in the authorization-code
   table or whose record's expiresAt is earlier than the time the handler
   reads, answers 400 "Invalid or expired authorization code" once the lookup
   has returned, never answers 200 and writes no AccessToken record, after any
   sequence of earlier requests. *)
C1_InvalidOrExpiredRejected ==
  C1_StaleCode =>
    /\ Status # 200
    /\ Writes("TOKEN") = 0
    /\ Step # "put"
    /\ Step = "check" =>
         /\ Status = 400
         /\ ErrorIs("Invalid or expired authorization code")
         /\ NoWrites
(* an expired code is refused although its record is still stored *)
C1_Witness ==
  /\ C1_StaleCode
  /\ TokenForm.code \in DOMAIN authTable
  /\ Status = 400
  /\ tokenTable # << >>

C2_FreshCode ==
  /\ ExchangeRequested
  /\ Step # "get"
  /\ TokenForm.code \in DOMAIN authTable
  /\ last.out.trace.t135 - issuedAt[TokenForm.code] < TenMinutes
(* C2: round trip.  A Token Exchange carrying the code of a record written by
   handleAuthorize or handleRegisterUser, with non-empty client_id and
   redirect_uri and grant_type "authorization_code", that reads the clock
   less than ten minutes after the record was written, is never refused: it
   answers 200 with a non-empty access_token, token_type "bearer" and
   expires_in 3600, and writes exactly one AccessToken record, keyed by the
   returned token. *)
C2_RoundTrip ==
  C2_FreshCode =>
    /\ Step = "put"
    /\ ~last.out.threw =>
         /\ Status = 200
         /\ ~Falsy(last.resp.body.access_token)
         /\ last.resp.body.token_type = "bearer"
         /\ last.resp.body.expires_in = 3600
         /\ Writes("TOKEN") = 1
         /\ Len(last.out.puts) = 1
         /\ last.out.puts[1].Item.token = last.resp.body.access_token
         /\ last.resp.body.access_token \in DOMAIN tokenTable
         /\ tokenTable[last.resp.body.access_token] = last.out.puts[1].Item
(* the code of a Register User request is exchanged by a client the code was
   never bound to *)
C2_Witness ==
  /\ C2_FreshCode
  /\ Status = 200
  /\ "veluxUserId" \in DOMAIN authTable[TokenForm.code]
  /\ "clientId" \notin DOMAIN authTable[TokenForm.code]

C3_NoTokenIssued ==
  /\ Answering("handleRegisterUser")
  /\ "login" \in DOMAIN last.out.trace
  /\ last.out.trace.login.kind = "none"
C3_LoginFailed == C3_NoTokenIssued /\ last.out.state.tokenData = None
(* C3: a Register User request whose password-grant login yields no token
   data writes to no table; when the login leaves shared.state.tokenData
   absent, the request answers 401 "Error validating credentials against
   Velux backend!", whatever the process handled before. *)
C3_FailedLoginWritesNothing ==
  /\ C3_NoTokenIssued => (NoWrites /\ last.out.minted = 0)
  /\ C3_LoginFailed =>
       /\ ~last.out.threw
       /\ Status = 401
       /\ ErrorIs("Error validating credentials against Velux backend!")
(* the login fails in a process that registered the user before *)
C3_Witness ==
  /\ C3_LoginFailed
  /\ Status = 401
  /\ userTable # << >>
  /\ authTable # << >>

(* The credentials a Register User request carried, once it got past the
   parameter check, and what the vendor answered *)
Credentials == Val(JSONparse(Val(last.event.body)))
LoginSucceeded ==
  /\ Answering("handleRegisterUser")
  /\ "login" \in DOMAIN last.out.trace
  /\ last.out.trace.login.kind = "issued"
StoredCode == PutsTo(last.out.puts, "AUTH")[1].Item
StoredUser == PutsTo(last.out.puts, "USER")[1].Item

RegisterEffects ==
  /\ ~last.out.threw
  /\ Status = 200
  /\ Writes("USER") = 1 /\ Writes("AUTH") = 1 /\ Len(last.out.puts) = 2
  /\ StoredCode.veluxUserId = Credentials.velux_user_id
  /\ DOMAIN StoredCode = {"code", "veluxUserId", "expiresAt"}
  /\ StoredCode.expiresAt = issuedAt[StoredCode.code] + TenMinutes
  /\ StoredCode.expiresAt = last.out.trace.t259 + TenMinutes
  /\ authTable[StoredCode.code] = StoredCode
  /\ last.resp.body.message.code = StoredCode.code
  /\ last.resp.body.homeInfo = last.out.trace.homeData

(* C4, as claimed: every Register User request with non-empty credentials and
   a successful vendor login (none of the later vendor and store calls
   failing) writes exactly one UserRecord and one AuthorizationCode and
   answers 200. *)
C4_AsClaimed ==
  (LoginSucceeded /\ Step \notin {"homeInfo", "putUser", "putAuth"}) => RegisterEffects

C4_HasHome ==
  /\ LoginSucceeded
  /\ "homeData" \in DOMAIN last.out.trace
  /\ Len(last.out.trace.homeData.body.homes) >= 1
  /\ Step \notin {"putUser", "putAuth"}
(* C4, amended: a Register User request with non-empty credentials, a
   successful vendor login and home data that hold at least one home writes
   exactly one UserRecord and exactly one AuthorizationCode (veluxUserId =
   velux_user_id, no clientId, no redirectUri, expiry ten minutes after it is
   written) and answers 200 with message.code the stored code and homeInfo the
   vendor's home data. *)
C4_RegisterWritesUserAndCode == C4_HasHome => RegisterEffects
(* a registration whose first home has no NXG module *)
C4_Witness ==
  /\ C4_HasHome
  /\ Status = 200
  /\ "bridge" \notin DOMAIN StoredUser

C5_Params == Val(last.event.queryStringParameters)
C5_ValidAuthorize ==
  /\ Answering("handleAuthorize")
  /\ last.event.queryStringParameters # None
  /\ ~Falsy(Field(C5_Params, "client_id"))
  /\ ~Falsy(Field(C5_Params, "redirect_uri"))
(* C5: a GET /authorize with non-empty client_id and redirect_uri answers 302
   with Location = redirect_uri ?code=<code> &state=<state> (state verbatim,
   "" when absent), <code> being the key of an AuthorizationCode record this
   request stored, with the request's clientId and redirectUri and with
   expiresAt inside [now, now + 10 minutes]. *)
C5_AuthorizeRedirects ==
  C5_ValidAuthorize =>
    /\ Step = "put"
    /\ ~last.out.threw =>
         LET code == last.out.trace.authCode
             t == last.out.trace.t66
         IN /\ Status = 302
            /\ last.resp.headers.Location =
                 <<C5_Params.redirect_uri, "?code=", code, "&state=",
                   IF "state" \in DOMAIN C5_Params THEN C5_Params.state ELSE "">>
            /\ Writes("AUTH") = 1 /\ Len(last.out.puts) = 1
            /\ code = UuidNames[nextUuid] /\ last.out.minted = 1
            /\ code \in DOMAIN authTable
            /\ authTable[code] = last.out.puts[1].Item
            /\ authTable[code].code = code
            /\ authTable[code].clientId = C5_Params.client_id
            /\ authTable[code].redirectUri = C5_Params.redirect_uri
            /\ issuedAt[code] = t
            /\ t <= authTable[code].expiresAt
            /\ authTable[code].expiresAt <= t + TenMinutes
(* a redirect of a request that carried no state *)
C5_Witness ==
  /\ C5_ValidAuthorize
  /\ Status = 302
  /\ "state" \notin DOMAIN C5_Params
  /\ last.resp.headers.Location[5] = ""

C6_Fields == Base64Decode(Val(last.event.body))
C6_WrongGrant ==
  /\ Answering("handleTokenExchange")
  /\ ~NoBody(last.event.body)
  /\ ~Falsy(ParamsGet(C6_Fields, "grant_type"))
  /\ ParamsGet(C6_Fields, "grant_type") # "authorization_code"
(* C6: a Token Exchange whose grant_type is present and is not
   "authorization_code" answers 400 "Invalid grant type" when code, client_id
   and redirect_uri are present, also when the code is stored and unexpired,
   and 400 "Missing required parameters" when one of them is missing; it
   neither reads nor writes the store. *)
C6_WrongGrantRejected ==
  C6_WrongGrant =>
    /\ Status = 400
    /\ last.out.reads = 0 /\ NoWrites /\ last.out.minted = 0
    /\ IF \E f \in {"code", "client_id", "redirect_uri"} : Falsy(ParamsGet(C6_Fields, f))
       THEN ErrorIs("Missing required parameters")
       ELSE ErrorIs("Invalid grant type")
(* the wrong grant type is refused for a code that is stored and unexpired *)
C6_Witness ==
  /\ C6_WrongGrant
  /\ ErrorIs("Invalid grant type")
  /\ ParamsGet(C6_Fields, "code") \in DOMAIN authTable
  /\ authTable[ParamsGet(C6_Fields, "code")].expiresAt > now

(* C7: the router dispatches by exact (method, path): GET /authorize to
   handleAuthorize, POST /token to handleTokenExchange, POST /register_user
   to handleRegisterUser; every other pair answers 404 "Unsupported
   operation", runs no handler and writes nothing. *)
C7_ExactDispatch ==
  ~Idle =>
    LET m == last.event.httpMethod
        p == last.event.rawPath
    IN /\ (m = "GET" /\ p = "/authorize") <=> Answering("handleAuthorize")
       /\ (m = "POST" /\ p = "/token") <=> Answering("handleTokenExchange")
       /\ (m = "POST" /\ p = "/register_user") <=> Answering("handleRegisterUser")
       /\ (<<m, p>> \notin {<<"GET", "/authorize">>, <<"POST", "/token">>,
                            <<"POST", "/register_user">>}) =>
            /\ Answering("none")
            /\ Status = 404
            /\ ErrorIs("Unsupported operation")
            /\ NoWrites /\ last.out.reads = 0 /\ last.out.minted = 0
(* a known path with the wrong method *)
C7_Witness ==
  /\ ~Idle
  /\ last.event.httpMethod = "POST" /\ last.event.rawPath = "/authorize"
  /\ Status = 404

(* C8: every exception thrown while a handler runs ends in the response 500
   "Internal server error": the entry point never fails, and the body carries
   nothing of the error thrown. *)
C8_ExceptionsBecome500 ==
  ~Idle =>
    /\ ~last.uncaught
    /\ last.out.threw =>
         /\ Status = 500
         /\ last.resp = [statusCode |-> 500,
                         body |-> [error |-> "Internal server error"]]
(* the AuthorizationCode put fails after the UserRecord was written *)
C8_Witness ==
  /\ ~Idle
  /\ last.out.threw
  /\ Step = "putAuth"
  /\ Writes("USER") = 1
  /\ Status = 500

C9_Registered == Answering("handleRegisterUser") /\ Status = 200
(* C9, as claimed: the UserRecord of a Register User request that answered
   200 holds userid = velux_user_id. *)
C9_AsClaimed ==
  C9_Registered =>
    /\ "userid" \in DOMAIN StoredUser
    /\ StoredUser["userid"] = Credentials.velux_user_id

(* C9, amended: the UserRecord of a Register User request that answered 200
   holds username (not userid) = velux_user_id, password = velux_password,
   home_id = the id of the first home the vendor returned, bridge = the id of
   the first module of that home whose type is "NXG", access_token and
   refresh_token = the tokens issued to this request's login, and createdAt =
   the time the handler read. *)
C9_UserRecord ==
  C9_Registered =>
    LET home == last.out.trace.homeData.body.homes[1]
        rec == userTable[Credentials.velux_user_id]
    IN /\ Credentials.velux_user_id \in DOMAIN userTable
       /\ rec = StoredUser
       /\ "userid" \notin DOMAIN rec
       /\ rec.username = Credentials.velux_user_id
       /\ rec.password = Credentials.velux_password
       /\ rec.home_id = home.id
       /\ \A i \in 1..Len(home.modules) :
            (/\ home.modules[i].type = "NXG"
             /\ \A j \in 1..(i - 1) : home.modules[j].type # "NXG")
            => ("bridge" \in DOMAIN rec /\ rec.bridge = home.modules[i].id)
       /\ rec.access_token = last.out.trace.login.token.AccessToken
       /\ rec.refresh_token = last.out.trace.login.token.RefreshToken
       /\ rec.createdAt = last.out.trace.t241
(* a re-registration: the first home has several NXG modules after another
   module, and the vendor issued other tokens than those left in shared.state
   by the registration before *)
C9_Witness ==
  /\ C9_Registered
  /\ "bridge" \in DOMAIN StoredUser
  /\ StoredUser.bridge = "B2"
  /\ StoredUser.access_token = "AT2"
  /\ \E c \in DOMAIN authTable : c # StoredCode.code /\ "veluxUserId" \in DOMAIN authTable[c]

(* C10, as claimed: every AccessToken record has expiresAt = createdAt + 1
   hour exactly, whatever the clock does while handleTokenExchange runs. *)
C10_ExactlyOneHour ==
  \A t \in DOMAIN tokenTable :
    tokenTable[t].expiresAt = tokenTable[t].createdAt + OneHour

----------------------------------------------------------------------------
(* A Register User request whose body is missing, and one whose body parses
   as JSON and holds no non-empty velux_user_id or no non-empty
   velux_password (the JSON value null among them) *)
C11_BodyMissing == NoBody(last.event.body)
C11_CredentialsMissing ==
  /\ ~NoBody(last.event.body)
  /\ "json" \in DOMAIN Val(last.event.body)
  /\ LET parsed == Val(last.event.body).json
     IN \/ parsed = None
        \/ Falsy(Field(Val(parsed), "velux_user_id"))
        \/ Falsy(Field(Val(parsed), "velux_password"))
C11_NothingDone ==
  /\ Step \in {"body", "params"}
  /\ NoWrites /\ last.out.minted = 0
(* C11, as claimed: a Register User request with a missing body answers 400
   "Missing request body", one whose JSON body lacks a non-empty
   velux_user_id or velux_password answers 400 "Missing required
   parameters"; in both cases the vendor client is not called, shared.state
   is left as it was and nothing is written. *)
C11_MissingInputRejected ==
  [][(Idle /\ Answering("handleRegisterUser")')
       => /\ C11_BodyMissing' =>
               (Status' = 400 /\ ErrorIs("Missing request body")')
          /\ C11_CredentialsMissing' =>
               (Status' = 400 /\ ErrorIs("Missing required parameters")')
          /\ (C11_BodyMissing' \/ C11_CredentialsMissing') =>
               /\ C11_NothingDone'
               /\ UNCHANGED <<state, authTable, tokenTable, userTable>>]_vars

(* C12: a GET /authorize whose query parameters are absent, or whose
   client_id or redirect_uri is missing or empty, answers 400 "Missing
   required parameters", mints no code and stores no AuthorizationCode
   record. *)
C12_MissingAuthorizeRejected ==
  (/\ Answering("handleAuthorize")
   /\ LET q == last.event.queryStringParameters
      IN \/ q = None
         \/ "client_id" \notin DOMAIN Val(q) \/ "redirect_uri" \notin DOMAIN Val(q)
         \/ Val(q).client_id = "" \/ Val(q).redirect_uri = "")
  => /\ Status = 400
     /\ ErrorIs("Missing required parameters")
     /\ last.out.minted = 0
     /\ NoWrites
(* client_id is given and redirect_uri is the empty string *)
C12_Witness ==
  /\ Answering("handleAuthorize")
  /\ last.event.queryStringParameters # None
  /\ Field(Val(last.event.queryStringParameters), "client_id") = "skill"
  /\ Field(Val(last.event.queryStringParameters), "redirect_uri") = ""
  /\ Status = 400

----------------------------------------------------------------------------
(* a Token Exchange of a stored code, read by the handler no later than the
   code's expiresAt, whose store lookup resolved *)
C14_Unexpired ==
  /\ ExchangeRequested
  /\ Step # "get"
  /\ TokenForm.code \in DOMAIN authTable
  /\ last.out.trace.t135 <= authTable[TokenForm.code].expiresAt
(* C14: a Token Exchange never deletes or changes an AuthorizationCode
   record, and every Token Exchange of a stored code made while the time is
   not past the code's expiresAt (a code exchanged before among them) goes on
   to write: it answers 200 with a token no AccessToken record had, and adds
   exactly that one record to the AccessToken table. *)
C14_CodeIsReusable ==
  [][(Idle /\ Answering("handleTokenExchange")') =>
       /\ authTable' = authTable
       /\ C14_Unexpired' =>
            /\ Step' = "put"
            /\ ~last'.out.threw =>
                 LET tok == last'.resp.body.access_token
                 IN /\ Status' = 200
                    /\ tok \notin DOMAIN tokenTable
                    /\ DOMAIN tokenTable' = DOMAIN tokenTable \cup {tok}
                    /\ \A o \in DOMAIN tokenTable : tokenTable'[o] = tokenTable[o]]_vars
(* the only code there is was exchanged before, and is exchanged again at the
   very millisecond of its expiresAt *)
C14_Witness ==
  /\ C14_Unexpired
  /\ Status = 200
  /\ Cardinality(DOMAIN authTable) = 1
  /\ Cardinality(DOMAIN tokenTable) = 2
  /\ last.out.trace.t135 = authTable[TokenForm.code].expiresAt

----------------------------------------------------------------------------
(* The client_id and redirect_uri values a Token Exchange is compared over:
   those stored with the codes of GET /authorize and others *)
C15_ClientIds == {"skill", "other"}
C15_RedirectUris == {"https://cb", "https://elsewhere"}
(* the form with its client_id and redirect_uri fields replaced *)
C15_With(form, ci, ru) ==
  [i \in 1..Len(form) |->
     IF form[i][1] = "client_id" THEN <<"client_id", ci>>
     ELSE IF form[i][1] = "redirect_uri" THEN <<"redirect_uri", ru>>
     ELSE form[i]]
C15_Sent == Base64Decode(Val(last.event.body))
C15_BothGiven ==
  /\ Answering("handleTokenExchange")
  /\ ~NoBody(last.event.body)
  /\ ~Falsy(ParamsGet(C15_Sent, "client_id"))
  /\ ~Falsy(ParamsGet(C15_Sent, "redirect_uri"))
(* how the store and the clock behaved for the request being answered, read
   off from what the handler did *)
C15_Met ==
  LET d2 == IF "t135" \in DOMAIN last.out.trace THEN now - last.out.trace.t135 ELSE 0
  IN [getOk |-> Step # "get",
      putOk |-> ~(last.out.threw /\ Step = "put"),
      d1 |-> last.out.dt - d2,
      d2 |-> d2]
(* C15: the status of a Token Exchange does not depend on client_id and
   redirect_uri.  The same request sent with any other non-empty client_id
   and redirect_uri, at the same store state and time and with the store
   behaving the same, gets the same status, whether or not the values are
   those stored with the code; and the AccessToken record written on success
   carries the client_id of the request. *)
C15_ClientNotChecked ==
  [][(Idle /\ C15_BothGiven') =>
       /\ handleTokenExchange(last'.event.body, C15_Met') = last'.out
       /\ \A ci \in C15_ClientIds, ru \in C15_RedirectUris :
            LET other == handleTokenExchange(
                           Some([form |-> C15_With(C15_Sent', ci, ru)]), C15_Met')
            IN /\ Catch(other).resp.statusCode = Status'
               /\ Len(other.puts) = Len(last'.out.puts)
               /\ \A i \in 1..Len(other.puts) : other.puts[i].Item.clientId = ci
       /\ Status' = 200 =>
            tokenTable'[last'.resp.body.access_token].clientId
              = ParamsGet(C15_Sent', "client_id")]_vars
(* a client the code was not issued to exchanges it *)
C15_Witness ==
  /\ C15_BothGiven
  /\ Status = 200
  /\ "clientId" \in DOMAIN authTable[TokenForm.code]
  /\ authTable[TokenForm.code].clientId = "skill"
  /\ ParamsGet(C15_Sent, "client_id") = "other"
  /\ tokenTable[last.resp.body.access_token].clientId = "other"

----------------------------------------------------------------------------
(* a Register User request that logged in and got the vendor's home data *)
C16_GotHomeData == LoginSucceeded /\ "homeData" \in DOMAIN last.out.trace
C16_Homes == last.out.trace.homeData.body.homes
C16_NoHome == C16_GotHomeData /\ C16_Homes = <<>>
C16_NoBridge ==
  /\ C16_GotHomeData
  /\ C16_Homes # <<>>
  /\ \A i \in 1..Len(C16_Homes[1].modules) : C16_Homes[1].modules[i].type # "NXG"
C16_FailsHard ==
  /\ last.out.threw
  /\ Status = 500
  /\ ErrorIs("Internal server error")
  /\ Writes("USER") = 0 /\ Writes("AUTH") = 0
(* C16, as claimed: a Register User request that logs in and whose home data
   has no home, or whose first home has no module of type "NXG", answers 500
   "Internal server error" and writes neither a UserRecord nor an
   AuthorizationCode. *)
C16_AsClaimed == (C16_NoHome \/ C16_NoBridge) => C16_FailsHard

(* C16, amended: with no home in the home data the request answers 500
   "Internal server error" and writes nothing; with a first home that has no
   module of type "NXG" it does not fail: when both store writes succeed it
   answers 200 and writes a UserRecord without bridge and an
   AuthorizationCode. *)
C16_OnlyNoHomeFailsHard ==
  /\ C16_NoHome => (C16_FailsHard /\ NoWrites /\ last.out.minted = 0)
  /\ (C16_NoBridge /\ Step \notin {"putUser", "putAuth"}) =>
       /\ ~last.out.threw
       /\ Status = 200
       /\ Writes("USER") = 1 /\ Writes("AUTH") = 1
       /\ "bridge" \notin DOMAIN StoredUser
       /\ StoredUser.home_id = C16_Homes[1].id
       /\ "bridge" \notin DOMAIN userTable[StoredUser.username]
(* the user of a home without bridge is registered and gets a code *)
C16_Witness ==
  /\ C16_NoBridge
  /\ Status = 200
  /\ StoredUser.home_id = "H4"
  /\ last.resp.body.message.code \in DOMAIN authTable

----------------------------------------------------------------------------
(* the request being answered, by its method and path *)
C17_Is(method, path) ==
  ~Idle /\ last.event.httpMethod = method /\ last.event.rawPath = path
C17_LoggedIn ==
  /\ "login" \in DOMAIN last.out.trace
  /\ last.out.trace.login.kind = "issued"
(* C17: each table is written only by the requests named for it, and never
   by a rejected one.  The AccessToken table changes only in answering a POST
   /token with 200, the UserRecord table only in answering a POST
   /register_user whose vendor login succeeded, the AuthorizationCode table
   only in answering a GET /authorize with 302 or a POST /register_user whose
   vendor login succeeded; a request answered 400, 401 or 404 leaves the
   three tables as they were. *)
C17_WritersOnly ==
  [][/\ tokenTable' # tokenTable =>
          (Idle /\ C17_Is("POST", "/token")' /\ Status' = 200)
     /\ userTable' # userTable =>
          (Idle /\ C17_Is("POST", "/register_user")' /\ C17_LoggedIn')
     /\ authTable' # authTable =>
          /\ Idle
          /\ \/ C17_Is("GET", "/authorize")' /\ Status' = 302
             \/ C17_Is("POST", "/register_user")' /\ C17_LoggedIn'
     /\ (Idle /\ ~Idle' /\ Status' \in {400, 401, 404}) =>
          /\ UNCHANGED <<authTable, tokenTable, userTable>>
          /\ last'.out.puts = <<>>]_vars
(* a login refused with 401 while all three tables hold records *)
C17_Witness ==
  /\ C17_Is("POST", "/register_user")
  /\ Status = 401
  /\ authTable # << >> /\ tokenTable # << >> /\ userTable # << >>

----------------------------------------------------------------------------
(* the veluxUserId a record carries, if any *)
C18_UserOf(rec) == Field(rec, "veluxUserId")
(* C18: every AuthorizationCode record that carries a veluxUserId was put by
   a Register User request right after that request put the UserRecord of
   that user (no UserRecord put, no code put); every AccessToken record gets
   the veluxUserId of the AuthorizationCode record it is exchanged for, none
   when that record has none; so every veluxUserId on a code or on a token
   is the key of a stored UserRecord. *)
C18_LinkedToUser ==
  /\ \A c \in DOMAIN authTable :
       C18_UserOf(authTable[c]) # Absent => C18_UserOf(authTable[c]) \in DOMAIN userTable
  /\ \A t \in DOMAIN tokenTable :
       C18_UserOf(tokenTable[t]) # Absent => C18_UserOf(tokenTable[t]) \in DOMAIN userTable
  /\ Answering("handleAuthorize") =>
       \A i \in 1..Len(last.out.puts) : C18_UserOf(last.out.puts[i].Item) = Absent
  /\ Answering("handleRegisterUser") =>
       /\ Step = "putUser" => NoWrites
       /\ Writes("AUTH") > 0 =>
            /\ Len(last.out.puts) = 2
            /\ last.out.puts[1].TableName = "USER"
            /\ last.out.puts[2].TableName = "AUTH"
            /\ C18_UserOf(last.out.puts[2].Item) = last.out.puts[1].Item.username
            /\ userTable[last.out.puts[1].Item.username] = last.out.puts[1].Item
  /\ (Answering("handleTokenExchange") /\ Writes("TOKEN") > 0) =>
       /\ Len(last.out.puts) = 1
       /\ C18_UserOf(last.out.puts[1].Item) = C18_UserOf(authTable[TokenForm.code])
       /\ tokenTable[last.out.puts[1].Item.token] = last.out.puts[1].Item
(* the code of a registration is exchanged: the token names the registered
   user *)
C18_Witness ==
  /\ Answering("handleTokenExchange")
  /\ Status = 200
  /\ C18_UserOf(tokenTable[last.resp.body.access_token]) = "alice"
  /\ "alice" \in DOMAIN userTable
  /\ "clientId" \notin DOMAIN authTable[TokenForm.code]

----------------------------------------------------------------------------
(* a call of validateAuthorizationCode(code, clientId, redirectUri) that
   returned *)
C19_Returned == last.route = "validateAuthorizationCode" /\ ~last.threw
(* C19: validateAuthorizationCode returns true exactly when a record for the
   code exists whose clientId and redirectUri are the ones given and whose
   expiresAt is strictly later than the time read, false otherwise, and
   leaves the tables alone; so it returns true for a record of
   storeAuthorizationCode with the same clientId and redirectUri as long as
   less than ten minutes have passed since it was stored, and false from the
   tenth minute on. *)
C19_ValidatesExactly ==
  [][(last'.route = "validateAuthorizationCode") =>
       /\ UNCHANGED <<authTable, tokenTable, userTable>>
       /\ C19_Returned' =>
            LET code == last'.args[1]
                matches == /\ code \in DOMAIN authTable
                           /\ authTable[code].clientId = last'.args[2]
                           /\ authTable[code].redirectUri = last'.args[3]
            IN /\ last'.result \in BOOLEAN
               /\ last'.result <=>
                    (matches /\ authTable[code].expiresAt > last'.t)
               /\ matches =>
                    (last'.result <=> last'.t - issuedAt[code] < TenMinutes)]_vars
(* the record is accepted in the last millisecond of its ten minutes *)
C19_Witness ==
  /\ C19_Returned
  /\ last.result = TRUE
  /\ last.t - issuedAt[last.args[1]] = TenMinutes - 1

----------------------------------------------------------------------------
(* C13, as claimed: Register User requests that overlap in one process do
   not interfere.  In every interleaving at the await points, a request is
   answered 200 exactly when the vendor accepts its own credentials and 401
   otherwise, and the UserRecord it puts pairs its own username and password
   with the tokens and the home the vendor holds for that user. *)
C13_NoInterference ==
  \A r \in DOMAIN inflight :
    LET me == inflight[r]
        mine == VendorAccounts[me.velux_user_id]
    IN /\ me.pc = "done" =>
            me.resp.statusCode =
              IF Accepted(me.velux_user_id, me.velux_password) THEN 200 ELSE 401
       /\ "dbitem" \in DOMAIN me =>
            /\ me.dbitem.username = me.velux_user_id
            /\ me.dbitem.password = me.velux_password
            /\ me.dbitem.access_token = mine.token.AccessToken
            /\ me.dbitem.refresh_token = mine.token.RefreshToken
            /\ me.dbitem.home_id = mine.home.body.homes[1].id
            /\ me.dbitem.bridge = mine.home.body.homes[1].modules[1].id

====
